---- MODULE Spec2Model ----
(***************************************************************************)
(* Model of the deterministic population-viability core of EcolysisCMD:    *)
(* src/src/populations/population_level_simulation.rs                      *)
(*                                                                         *)
(* PopulationVector, PopulationMatrix, PvaDeterministicPopulation and      *)
(* PvaDeterministicOutput are modelled as records, their functions as      *)
(* operators that follow the Rust control flow, and a program using the    *)
(* library as a state machine: it builds a matrix, creates a vector, and   *)
(* then either calls project_vector or builds a population and runs        *)
(* deterministic_projection on it, one loop iteration per step.            *)
(*                                                                         *)
(* f64 values are drawn from small integers, on which f64 addition and     *)
(* multiplication are exact.  The cached lifestage_count is a u8, so it is *)
(* the length modulo 2^8.  A Rust panic (an out-of-bounds index, a failed  *)
(* expect) is the outcome "Panic".                                         *)
(***************************************************************************)
EXTENDS Integers, Sequences, FiniteSets, TLC

\* ---------------------------------------------------------------- bounds
\* Largest number of rows, row length and vector length enumerated in full.
MaxLen == 2
\* Largest iteration count passed to deterministic_projection.
MaxIter == 2
\* Vectors of U8Mod + 1 .. U8Mod + MaxWrap values are enumerated too.
MaxWrap == 1

\* 2^8: the number of values of the u8 that caches a length.
U8Mod == 256

\* The f64 values that inputs are built from.
Vals == {0, 1}

\* Lengths of the long vectors: their u8 casts are 1 .. MaxWrap.
WrapLens == (U8Mod + 1)..(U8Mod + MaxWrap)

\* ------------------------------------------------------- results, options
Ok(v) == [tag |-> "Ok", value |-> v]
Err(msg) == [tag |-> "Err", value |-> msg]
Panic(msg) == [tag |-> "Panic", value |-> msg]
None == [tag |-> "None", value |-> "none"]
Some(v) == [tag |-> "Some", value |-> v]

RaggedMsg == "All sub-vectors must be of matching lengths to construct a population matrix."
NotSquareMsg == "Number of items in lifestages must match number of inputted sub-vectors."
MismatchMsg == "the length of inputted population matrix and population vector do not match."
PopMismatchMsg == "Population vector size does not match matrices."
IndexMsg == "Index out of bounds."
ExpectMsg == "This error should not be possible. Mismatched Vector and Matrix lengths, or non-square Matrix. Please file a bug report."
SliceIndexMsg == "index out of bounds: the len is 0 but the index is 0"

\* `n as u8` for a usize n.
AsU8(n) == n % U8Mod

\* ------------------------------------------------------- PopulationVector
PopulationVector_new(vector) ==
    [vector |-> vector, lifestage_count |-> AsU8(Len(vector))]

\* index is 0-based, as in the source.
get_value_at_index(self, index) ==
    IF index < Len(self.vector) THEN Some(self.vector[index + 1]) ELSE None

get_lifestage_count(self) == self.lifestage_count

\* ------------------------------------------------------- PopulationMatrix
\* One iteration of `for count in 1..input.len()`: found becomes TRUE when
\* the iteration returns the ragged error.  count is the 0-based index of
\* the source; the sequence is 1-based.
RaggedBody(input, count, found) ==
    Len(input[count + 1]) # Len(input[count])

\* The iterations lo .. hi-1 of that loop, in order, halving the range so
\* that long inputs need no deep recursion; an earlier return ends the loop.
RECURSIVE RaggedLoop(_, _, _, _)
RaggedLoop(input, lo, hi, found) ==
    IF found \/ lo >= hi THEN found
    ELSE IF hi = lo + 1 THEN RaggedBody(input, lo, found)
    ELSE LET mid == (lo + hi) \div 2
         IN RaggedLoop(input, mid, hi, RaggedLoop(input, lo, mid, found))

PopulationMatrix_build_SkipLast(input) ==
    IF Len(input) = 0 THEN Panic(SliceIndexMsg)
    ELSE IF Len(input) = Len(input[1])
    THEN IF RaggedLoop(input, 1, Len(input) - 1, FALSE) THEN Err(RaggedMsg)
         ELSE Ok([matrix |-> input, lifestage_count |-> AsU8(Len(input))])
    ELSE Err(NotSquareMsg)

PopulationMatrix_build(input) ==
    IF Len(input) = 0 THEN Panic(SliceIndexMsg)      \* input[0] on an empty Vec
    ELSE IF Len(input) = Len(input[1])
    THEN IF RaggedLoop(input, 1, Len(input), FALSE) THEN Err(RaggedMsg)
         ELSE Ok([matrix |-> input, lifestage_count |-> AsU8(Len(input))])
    ELSE Err(NotSquareMsg)

\* One iteration of the inner loop of project_vector,
\* `for (count2, item) in lifestage.iter().enumerate()`.  acc carries storage,
\* the number of get_value_at_index calls made, and whether expect panicked.
ItemBody(lifestage, vector, count2, acc) ==
    LET got == get_value_at_index(vector, count2)
    IN IF got.tag = "None"
       THEN [panic |-> TRUE, storage |-> acc.storage, indexed |-> acc.indexed + 1]
       ELSE [panic |-> FALSE,
             storage |-> acc.storage + lifestage[count2 + 1] * got.value,
             indexed |-> acc.indexed + 1]

\* The iterations lo .. hi-1 of the inner loop, in order (range halved as in
\* RaggedLoop); a panic ends the loop.
RECURSIVE ItemLoop(_, _, _, _, _)
ItemLoop(lifestage, vector, lo, hi, acc) ==
    IF acc.panic \/ lo >= hi THEN acc
    ELSE IF hi = lo + 1 THEN ItemBody(lifestage, vector, lo, acc)
    ELSE LET mid == (lo + hi) \div 2
         IN ItemLoop(lifestage, vector, mid, hi,
                     ItemLoop(lifestage, vector, lo, mid, acc))

RowBodyNoReset(self, vector, row, acc) ==
    LET lifestage == self.matrix[row + 1]
        r == ItemLoop(lifestage, vector, 0, Len(lifestage),
                      [panic |-> FALSE, storage |-> acc.storage, indexed |-> acc.indexed])
    IN IF r.panic
       THEN [acc EXCEPT !.panic = TRUE, !.indexed = r.indexed]
       ELSE [panic |-> FALSE, storage |-> r.storage, indexed |-> r.indexed,
             new_population_vector |-> Append(acc.new_population_vector, r.storage)]

\* One iteration of the outer loop, `for lifestage in &self.matrix`: the row's
\* products are added to storage, storage is pushed and then reset to 0.0.
\* row is 0-based.
RowBody(self, vector, row, acc) ==
    LET lifestage == self.matrix[row + 1]
        r == ItemLoop(lifestage, vector, 0, Len(lifestage),
                      [panic |-> FALSE, storage |-> acc.storage, indexed |-> acc.indexed])
    IN IF r.panic
       THEN [acc EXCEPT !.panic = TRUE, !.indexed = r.indexed]
       ELSE [panic |-> FALSE, storage |-> 0, indexed |-> r.indexed,
             new_population_vector |-> Append(acc.new_population_vector, r.storage)]

\* The iterations lo .. hi-1 of the outer loop, in order.
RECURSIVE RowLoop(_, _, _, _, _)
RowLoop(self, vector, lo, hi, acc) ==
    IF acc.panic \/ lo >= hi THEN acc
    ELSE IF hi = lo + 1 THEN RowBody(self, vector, lo, acc)
    ELSE LET mid == (lo + hi) \div 2
         IN RowLoop(self, vector, mid, hi, RowLoop(self, vector, lo, mid, acc))

\* The result of project_vector, with the number of vector elements indexed.
project_vector(self, vector) ==
    IF self.lifestage_count # get_lifestage_count(vector)
    THEN [tag |-> "Err", value |-> MismatchMsg, indexed |-> 0]
    ELSE LET done == RowLoop(self, vector, 0, Len(self.matrix),
                             [panic |-> FALSE, storage |-> 0, indexed |-> 0,
                              new_population_vector |-> <<>>])
         IN IF done.panic
            THEN [tag |-> "Panic", value |-> IndexMsg, indexed |-> done.indexed]
            ELSE [tag |-> "Ok",
                  value |-> PopulationVector_new(done.new_population_vector),
                  indexed |-> done.indexed]

\* --------------------------------------------- PvaDeterministicPopulation
PvaDeterministicPopulation_build(init_pop, matrix) ==
    LET expected_lifestage_length == get_lifestage_count(init_pop)
    IN IF matrix.lifestage_count # expected_lifestage_length
       THEN Err(PopMismatchMsg)
       ELSE Ok([initial_population |-> init_pop, projection_matrix |-> matrix])

PvaDeterministicOutput_new(simulation_output) == [result |-> simulation_output]

\* ------------------------------------------------------------------ inputs
RECURSIVE SeqsUpTo(_, _)
\* All sequences over S of length at most n.
SeqsUpTo(S, n) ==
    IF n = 0 THEN {<<>>}
    ELSE LET shorter == SeqsUpTo(S, n - 1)
         IN shorter \cup {Append(s, x) : s \in {t \in shorter : Len(t) = n - 1}, x \in S}

RECURSIVE Uniform(_, _)
\* The sequence of n copies of x.
Uniform(n, x) ==
    IF n = 0 THEN <<>>
    ELSE IF n = 1 THEN <<x>>
    ELSE LET half == Uniform(n \div 2, x)
         IN half \o half \o Uniform(n % 2, x)

RECURSIVE IdentityRows(_, _, _)
\* Rows lo .. hi of the n x n identity matrix.
IdentityRows(n, lo, hi) ==
    IF lo > hi THEN <<>>
    ELSE IF lo = hi THEN <<Uniform(lo - 1, 0) \o <<1>> \o Uniform(n - lo, 0)>>
    ELSE LET mid == (lo + hi) \div 2
         IN IdentityRows(n, lo, mid) \o IdentityRows(n, mid + 1, hi)

Identity(n) == IdentityRows(n, 1, n)

\* Vec<f64> arguments: every short one, and uniform ones of more than 2^8
\* values.
VectorInputs ==
    SeqsUpTo(Vals, MaxLen) \cup {Uniform(n, x) : n \in WrapLens, x \in Vals}

\* Vec<Vec<f64>> arguments: every short one (empty, ragged and non-square
\* included), and with 2^8 rows the identity matrix and a one-column input.
MatrixInputs ==
    SeqsUpTo(SeqsUpTo(Vals, MaxLen), MaxLen)
        \cup {Identity(U8Mod), Uniform(U8Mod, <<1>>)}

\* ------------------------------------------------------------------- state
VARIABLES
    pc,             \* position of the calling program
    input,          \* the argument given to PopulationMatrix::build
    matrixOut,      \* what PopulationMatrix::build returned
    vec,            \* the PopulationVector created by PopulationVector::new
    projOut,        \* what a direct project_vector call returned
    popOut,         \* what PvaDeterministicPopulation::build returned
    iterations,     \* argument of the running / last deterministic_projection
    step,           \* loop iterations of deterministic_projection completed
    active_vector,  \* local of deterministic_projection
    result,         \* local of deterministic_projection
    output,         \* outcome of the last deterministic_projection call
    previous        \* outcome of the call before it, with its argument

vars == <<pc, input, matrixOut, vec, projOut, popOut, iterations, step,
          active_vector, result, output, previous>>

NoCall == [iterations |-> 0, out |-> None]

Init ==
    /\ pc = "start"
    /\ input = <<>>
    /\ matrixOut = None
    /\ vec = None
    /\ projOut = None
    /\ popOut = None
    /\ iterations = 0
    /\ step = 0
    /\ active_vector = None
    /\ result = <<>>
    /\ output = None
    /\ previous = NoCall

\* PopulationMatrix::build(rows)
BuildMatrix ==
    /\ pc = "start"
    /\ \E rows \in MatrixInputs :
          /\ input' = rows
          /\ matrixOut' = PopulationMatrix_build(rows)
    /\ pc' = IF matrixOut'.tag = "Ok" THEN "matrix"
             ELSE IF matrixOut'.tag = "Err" THEN "rejected" ELSE "panicked"
    /\ UNCHANGED <<vec, projOut, popOut, iterations, step, active_vector,
                   result, output, previous>>

\* PopulationVector::new(values)
NewVector ==
    /\ pc = "matrix"
    /\ \E values \in VectorInputs : vec' = Ok(PopulationVector_new(values))
    /\ pc' = "ready"
    /\ UNCHANGED <<input, matrixOut, projOut, popOut, iterations, step,
                   active_vector, result, output, previous>>

\* matrix.project_vector(&vector), called directly; both are only borrowed,
\* so the call can be repeated.
ProjectVector ==
    /\ pc \in {"ready", "projected"}
    /\ projOut' = project_vector(matrixOut.value, vec.value)
    /\ pc' = IF projOut'.tag = "Panic" THEN "panicked" ELSE "projected"
    /\ UNCHANGED <<input, matrixOut, vec, popOut, iterations, step,
                   active_vector, result, output, previous>>

\* PvaDeterministicPopulation::build(vector, matrix); both are moved in.
BuildPopulation ==
    /\ pc = "ready"
    /\ popOut' = PvaDeterministicPopulation_build(vec.value, matrixOut.value)
    /\ pc' = IF popOut'.tag = "Ok" THEN "built" ELSE "rejected"
    /\ UNCHANGED <<input, matrixOut, vec, projOut, iterations, step,
                   active_vector, result, output, previous>>

\* Entry of deterministic_projection(iterations): the two locals are initialised.
StartProjection ==
    /\ pc \in {"built", "returned"}
    /\ \E n \in 0..MaxIter : iterations' = n
    /\ step' = 0
    /\ active_vector' = Ok(popOut.value.initial_population)
    /\ result' = <<>>
    /\ previous' = [iterations |-> iterations, out |-> output]
    /\ output' = None
    /\ pc' = "projecting"
    /\ UNCHANGED <<input, matrixOut, vec, projOut, popOut>>

ProjectionStepPushOld ==
    /\ pc = "projecting"
    /\ step < iterations
    /\ LET r == project_vector(popOut.value.projection_matrix, active_vector.value)
       IN IF r.tag = "Ok"
          THEN /\ active_vector' = Ok(r.value)
               /\ result' = Append(result, active_vector.value)
               /\ step' = step + 1
               /\ UNCHANGED <<pc, output>>
          ELSE /\ pc' = "panicked"
               /\ output' = Panic(ExpectMsg)
               /\ UNCHANGED <<active_vector, result, step>>
    /\ UNCHANGED <<input, matrixOut, vec, projOut, popOut, iterations, previous>>

ProjectionStepInPlace ==
    /\ pc = "projecting"
    /\ step < iterations
    /\ LET r == project_vector(popOut.value.projection_matrix, active_vector.value)
       IN IF r.tag = "Ok"
          THEN /\ active_vector' = Ok(r.value)
               /\ result' = Append(result, r.value)
               /\ step' = step + 1
               /\ popOut' = Ok([popOut.value EXCEPT !.initial_population = r.value])
               /\ UNCHANGED <<pc, output>>
          ELSE /\ pc' = "panicked"
               /\ output' = Panic(ExpectMsg)
               /\ UNCHANGED <<active_vector, result, step, popOut>>
    /\ UNCHANGED <<input, matrixOut, vec, projOut, iterations, previous>>

\* One iteration of `for _ in 1..=iterations`: project, expect, push a clone.
ProjectionStep ==
    /\ pc = "projecting"
    /\ step < iterations
    /\ LET r == project_vector(popOut.value.projection_matrix, active_vector.value)
       IN IF r.tag = "Ok"
          THEN /\ active_vector' = Ok(r.value)
               /\ result' = Append(result, r.value)
               /\ step' = step + 1
               /\ UNCHANGED <<pc, output>>
          ELSE /\ pc' = "panicked"
               /\ output' = Panic(ExpectMsg)
               /\ UNCHANGED <<active_vector, result, step>>
    /\ UNCHANGED <<input, matrixOut, vec, projOut, popOut, iterations, previous>>

\* The loop is over: return PvaDeterministicOutput::new(result).
ProjectionReturn ==
    /\ pc = "projecting"
    /\ step = iterations
    /\ output' = Ok(PvaDeterministicOutput_new(result))
    /\ active_vector' = None
    /\ result' = <<>>
    /\ pc' = "returned"
    /\ UNCHANGED <<input, matrixOut, vec, projOut, popOut, iterations, step, previous>>

Next ==
    \/ BuildMatrix
    \/ NewVector
    \/ ProjectVector
    \/ BuildPopulation
    \/ StartProjection
    \/ ProjectionStep
    \/ ProjectionReturn

Spec == Init /\ [][Next]_vars

\* ------------------------------------------------------------------ claims
\* The arguments of the calls, by their real lengths.
RowCount == Len(matrixOut.value.matrix)
ValueCount == Len(vec.value.vector)

RECURSIVE DotUpTo(_, _, _)
\* row[1]*v[1] + ... + row[n]*v[n]
DotUpTo(row, v, n) == IF n = 0 THEN 0 ELSE DotUpTo(row, v, n - 1) + row[n] * v[n]

\* C1: when project_vector is called on a built matrix and a vector holding as
\* many values as the matrix has rows, it returns Ok and element i of the
\* returned vector is row i dotted with the whole input vector, for every row
\* i; nothing of an earlier row's sum is carried into a later one.
C1_ProjectIsRowDotVector ==
    (projOut.tag # "None" /\ ValueCount = RowCount) =>
        /\ projOut.tag = "Ok"
        /\ Len(projOut.value.vector) = RowCount
        /\ \A i \in 1..RowCount :
              projOut.value.vector[i]
                  = DotUpTo(matrixOut.value.matrix[i], vec.value.vector, ValueCount)

\* A 2 x 2 product whose first row sums to a non-zero value and whose second
\* row sums to zero.
C1_Witness ==
    /\ projOut.tag = "Ok"
    /\ ValueCount = 2
    /\ RowCount = 2
    /\ projOut.value.vector[1] > 0
    /\ projOut.value.vector[2] = 0

\* C2: whenever the matrix's number of rows differs from the vector's number
\* of values, project_vector returns the dimension-mismatch error, having
\* indexed no element of the vector and produced no output vector.
C2_MismatchAlwaysRejected ==
    (projOut.tag # "None" /\ ValueCount # RowCount) =>
        /\ projOut.tag = "Err"
        /\ projOut.value = MismatchMsg
        /\ projOut.indexed = 0

\* C3: PopulationMatrix::build on an empty sequence of rows returns an error
\* result; it does not panic.
C3_EmptyBuildIsError ==
    (pc # "start" /\ input = <<>>) => matrixOut.tag = "Err"

\* C4: for a non-empty input, build returns Ok exactly when every row is as
\* long as the number of rows, the not-square error exactly when the number
\* of rows differs from the first row's length, and the ragged-rows error
\* exactly when the square check passes and some row's length differs from
\* the previous row's; on success the stored rows are the input rows.
C4_BuildShape ==
    (pc # "start" /\ Len(input) > 0) =>
        LET n == Len(input)
            allSquare == \A i \in 1..n : Len(input[i]) = n
            notSquare == n # Len(input[1])
            ragged == /\ ~notSquare
                      /\ \E i \in 2..n : Len(input[i]) # Len(input[i - 1])
        IN /\ (matrixOut.tag = "Ok") <=> allSquare
           /\ (matrixOut.tag = "Err" /\ matrixOut.value = NotSquareMsg) <=> notSquare
           /\ (matrixOut.tag = "Err" /\ matrixOut.value = RaggedMsg) <=> ragged
           /\ matrixOut.tag = "Ok" => matrixOut.value.matrix = input

\* Two rows, the first of length two and the last not: the ragged error.
C4_Witness ==
    /\ pc # "start"
    /\ Len(input) = 2
    /\ Len(input[1]) = 2
    /\ Len(input[2]) # 2
    /\ matrixOut.tag = "Err"
    /\ matrixOut.value = RaggedMsg

\* C5: the cached stage count of every created vector equals its number of
\* values, and that of every built matrix equals its number of rows.
C5_CachedCountIsLength ==
    /\ vec.tag = "Ok" => get_lifestage_count(vec.value) = ValueCount
    /\ matrixOut.tag = "Ok" => matrixOut.value.lifestage_count = RowCount

\* C6: on a population accepted by PvaDeterministicPopulation::build,
\* deterministic_projection never panics.
C6_ProjectionNeverPanics ==
    popOut.tag = "Ok" => (pc # "panicked" /\ output.tag # "Panic")

\* C7: PvaDeterministicPopulation::build returns the dimension error, with no
\* projection step taken, whenever the vector's number of values differs from
\* the matrix's number of rows, and Ok holding exactly the given vector and
\* matrix whenever they are equal.
C7_PopulationBuildChecksLengths ==
    popOut.tag # "None" =>
        IF ValueCount # RowCount
        THEN /\ popOut.tag = "Err"
             /\ popOut.value = PopMismatchMsg
             /\ step = 0
             /\ result = <<>>
        ELSE /\ popOut.tag = "Ok"
             /\ popOut.value.initial_population = vec.value
             /\ popOut.value.projection_matrix = matrixOut.value

\* C8: every call of deterministic_projection(iterations) ends by returning,
\* after exactly `iterations` projection steps, a sequence of exactly
\* `iterations` vectors.
C8_ExactlyIterationsSteps ==
    (popOut.tag = "Ok" /\ pc \in {"returned", "panicked"}) =>
        /\ pc = "returned"
        /\ output.tag = "Ok"
        /\ step = iterations
        /\ Len(output.value.result) = iterations

\* seq[1] is the projection of first and each later seq[k + 1] that of seq[k].
IsProjectionChain(matrix, first, seq) ==
    \A k \in 1..Len(seq) :
        LET p == project_vector(matrix, IF k = 1 THEN first ELSE seq[k - 1])
        IN p.tag = "Ok" /\ seq[k] = p.value

\* C9: the output of deterministic_projection starts with the projection of
\* the initial vector (not with the initial vector) and continues with the
\* projection of each vector before it, in the order computed; while the loop
\* runs, the vectors pushed so far are such a chain and the active vector is
\* the last of them.
C9_OutputIsIteratedProjection ==
    /\ pc = "projecting" =>
          /\ Len(result) = step
          /\ IsProjectionChain(popOut.value.projection_matrix,
                               popOut.value.initial_population, result)
          /\ active_vector.value = IF step = 0 THEN popOut.value.initial_population
                                   ELSE result[step]
    /\ pc = "returned" =>
          IsProjectionChain(popOut.value.projection_matrix,
                            popOut.value.initial_population, output.value.result)

\* A returned two-step output whose vectors differ from one another and from
\* the initial vector.
C9_Witness ==
    /\ pc = "returned"
    /\ iterations = 2
    /\ Len(output.value.result) = 2
    /\ output.value.result[1] # popOut.value.initial_population
    /\ output.value.result[2] # output.value.result[1]

\* C10: a step that calls project_vector directly changes neither the matrix
\* nor the vector; no step of deterministic_projection changes the
\* population; and a call that returns after a returned call with the same
\* iteration count returns the same output.
C10_ProjectionIsPure ==
    [][/\ (pc \in {"ready", "projected"} /\ projOut' # projOut)
            => (vec' = vec /\ matrixOut' = matrixOut)
       /\ pc \in {"built", "projecting", "returned"} => popOut' = popOut
       /\ (pc' = "returned" /\ previous'.out.tag = "Ok"
              /\ previous'.iterations = iterations')
            => output' = previous'.out]_vars

\* The second of two returned calls with the same iteration count, two, whose
\* projection changed the vector.
C10_Witness ==
    /\ pc = "returned"
    /\ previous.out.tag = "Ok"
    /\ previous.iterations = iterations
    /\ iterations = 2
    /\ output.value.result[1] # popOut.value.initial_population

\* C11: whenever project_vector returns Ok, the returned vector has the stage
\* count of the input vector and holds as many values as the input vector;
\* and every vector in the output of deterministic_projection holds as many
\* values as the population's initial vector.
C11_ProjectionKeepsLength ==
    /\ projOut.tag = "Ok" =>
          /\ get_lifestage_count(projOut.value) = get_lifestage_count(vec.value)
          /\ Len(projOut.value.vector) = ValueCount
    /\ (pc = "returned" /\ output.tag = "Ok") =>
          \A k \in 1..Len(output.value.result) :
              Len(output.value.result[k].vector)
                  = Len(popOut.value.initial_population.vector)

====
